---- MODULE Spec2Model ----
(***************************************************************************)
(* Model of scripts/update_data.py: the warframe.market price pipeline.    *)
(*                                                                         *)
(*   SpecSlug     wm_url_candidates / guess_wm_url_name on bounded names   *)
(*   SpecExtract  the price extraction of wm_price_from_statistics on      *)
(*                bounded statistics documents                             *)
(*   Spec         main: build_relics_min, build_prices_from_wm_statistics  *)
(*                (with wm_price_from_statistics and http_json stepped one *)
(*                HTTP attempt at a time), the output files, the threshold *)
(*                                                                         *)
(* Strings are sequences of one-character strings, so that the code's      *)
(* character-level operations (strip, lower, replace, re.sub) are computed *)
(* and not assumed.                                                        *)
(***************************************************************************)
EXTENDS Integers, Sequences, FiniteSets, TLC

VARIABLES
    \* ---- SpecSlug
    slug_pc,        \* "call" | "done"
    item_arg,       \* the item_name argument of wm_url_candidates
    slug_out,       \* the list wm_url_candidates returned
    \* ---- SpecExtract
    ext_pc,         \* "call" | "done"
    ext_doc,        \* the parsed JSON body handed to the extraction
    ext_out,        \* what the extraction ended with: [kind |-> "none"|"int"|"raise", v]
    \* ---- Spec (main)
    pc,             \* where main is: see the actions below
    env,            \* what the servers may still answer (the run's environment)
    h,              \* the frame of the running http_json call
    ret,            \* how the last http_json call ended
    relics_body,    \* build_relics_min: payload, kept while the vault map loads
    relics_min,     \* main: the list build_relics_min returned
    reward_items,   \* build_prices_from_wm_statistics: the sorted distinct items
    idx,            \* ... the loop counter i (1-based), Len+1 when the loop is over
    cands,          \* ... the candidates of the current item
    ci,             \* ... the position in cands (1-based)
    v,              \* ... the local v: RNone or RInt(price)
    prices,         \* ... the dict prices: item name -> int
    missing_items,  \* ... the list missing_items
    sleeps,         \* ... how often it slept: [pause |-> n, pacing |-> n]
    item_requests,  \* ... the HTTP requests made for the current item by the
                    \*     wm_price_from_statistics calls that have ended
    files,          \* the files written so far: path -> content
    raised          \* the exception main ended with, NoErr while it has not

slugVars == <<slug_pc, item_arg, slug_out>>
extVars == <<ext_pc, ext_doc, ext_out>>
batchVars ==
    <<reward_items, idx, cands, ci, v, prices, missing_items, sleeps, item_requests>>
mainVars == <<pc, env, h, ret, relics_body, relics_min, batchVars, files, raised>>

vars == <<slugVars, extVars, mainVars>>

-----------------------------------------------------------------------------
(* Characters and strings *)

LowerChars ==
    {"a", "b", "c", "d", "e", "h", "i", "l", "m", "n", "o", "p", "r", "s", "t", "v", "x", "y"}
UpperChars == {"A", "B", "I", "L", "M", "N", "P", "R", "S", "X", "Y"}
DigitChars == {"0", "1", "2", "3", "4", "5", "6", "7", "8", "9"}
SpaceChars == {" ", "\t"}
PunctChars == {"&", "_", "-", "#", "'"}

\* str.lower() on one character
Lower(c) ==
    CASE c = "A" -> "a" [] c = "B" -> "b" [] c = "I" -> "i" [] c = "L" -> "l"
      [] c = "M" -> "m" [] c = "N" -> "n" [] c = "P" -> "p" [] c = "R" -> "r"
      [] c = "S" -> "s" [] c = "X" -> "x" [] c = "Y" -> "y"
      [] OTHER -> c

\* the characters in code point order, for the comparisons sorted() makes
CharOrder ==
    << "\t", " ", "#", "&", "'", "+", "-", ".", "/",
       "0", "1", "2", "3", "4", "5", "6", "7", "8", "9",
       "A", "B", "I", "L", "M", "N", "P", "R", "S", "X", "Y", "_",
       "a", "b", "c", "d", "e", "h", "i", "l", "m", "n", "o", "p", "r", "s", "t", "v", "x", "y" >>

Ord(c) == CHOOSE k \in 1..Len(CharOrder) : CharOrder[k] = c

\* a < b on strings
RECURSIVE StrLess(_, _)
StrLess(a, b) ==
    IF b = <<>> THEN FALSE
    ELSE IF a = <<>> THEN TRUE
    ELSE IF Head(a) # Head(b) THEN Ord(Head(a)) < Ord(Head(b))
    ELSE StrLess(Tail(a), Tail(b))

\* sorted(S) for a set of strings
RECURSIVE SortedStrings(_)
SortedStrings(S) ==
    IF S = {} THEN <<>>
    ELSE LET lo == CHOOSE x \in S : \A y \in S \ {x} : StrLess(x, y)
         IN  <<lo>> \o SortedStrings(S \ {lo})

\* the character class [a-z0-9] of the regular expressions
IsSlugChar(c) == c \in LowerChars \cup DigitChars

RECURSIVE Concat(_)
Concat(ss) == IF ss = <<>> THEN <<>> ELSE Head(ss) \o Concat(Tail(ss))

\* s[k:] (1-based k)
From(s, k) == SubSeq(s, k, Len(s))

\* s[k:].startswith(t) (1-based k)
StartsAt(s, k, t) ==
    /\ k + Len(t) - 1 <= Len(s)
    /\ SubSeq(s, k, k + Len(t) - 1) = t

\* str.endswith
EndsWith(s, t) == Len(t) <= Len(s) /\ SubSeq(s, Len(s) - Len(t) + 1, Len(s)) = t

\* the `in` operator on strings
Contains(s, t) == \E k \in 1..(Len(s) + 1) : StartsAt(s, k, t)

\* str.replace(old, new): every non-overlapping occurrence, left to right
RECURSIVE Replace(_, _, _)
Replace(s, old, new) ==
    IF s = <<>> THEN <<>>
    ELSE IF StartsAt(s, 1, old) THEN new \o Replace(From(s, Len(old) + 1), old, new)
    ELSE <<Head(s)>> \o Replace(Tail(s), old, new)

\* str.strip(chars), one side at a time
RECURSIVE LStrip(_, _)
LStrip(s, cs) == IF s # <<>> /\ Head(s) \in cs THEN LStrip(Tail(s), cs) ELSE s

RECURSIVE RStrip(_, _)
RStrip(s, cs) ==
    IF s # <<>> /\ s[Len(s)] \in cs THEN RStrip(SubSeq(s, 1, Len(s) - 1), cs) ELSE s

Strip(s, cs) == RStrip(LStrip(s, cs), cs)

\* str.lower()
LowerStr(s) == [k \in 1..Len(s) |-> Lower(s[k])]

\* re.sub(r"[^a-z0-9]+", "_", s): each maximal run outside the class becomes one "_"
RECURSIVE SubNonSlugRuns(_)
SubNonSlugRuns(s) ==
    IF s = <<>> THEN <<>>
    ELSE IF IsSlugChar(Head(s)) THEN <<Head(s)>> \o SubNonSlugRuns(Tail(s))
    ELSE <<"_">> \o SubNonSlugRuns(LStrip(s, {c \in {s[k] : k \in 1..Len(s)} : ~IsSlugChar(c)}))

\* re.sub(r"_+", "_", s)
RECURSIVE SubUnderscoreRuns(_)
SubUnderscoreRuns(s) ==
    IF s = <<>> THEN <<>>
    ELSE IF Head(s) = "_" THEN <<"_">> \o SubUnderscoreRuns(LStrip(s, {"_"}))
    ELSE <<Head(s)>> \o SubUnderscoreRuns(Tail(s))

-----------------------------------------------------------------------------
(* Slug derivation *)

Receiver == <<"r", "e", "c", "e", "i", "v", "e", "r">>
Reciever == <<"r", "e", "c", "i", "e", "v", "e", "r">>
SuffixReceiver == <<"_">> \o Receiver
SuffixReciever == <<"_">> \o Reciever
InnerReceiver == <<"_">> \o Receiver \o <<"_">>
InnerReciever == <<"_">> \o Reciever \o <<"_">>

guess_wm_url_name(item_name) ==
    LET s1 == LowerStr(Strip(item_name, SpaceChars))
        s2 == Replace(s1, <<"&">>, <<"a", "n", "d">>)
        s3 == SubNonSlugRuns(s2)
    IN  Strip(SubUnderscoreRuns(s3), {"_"})

\* the manual overrides: the dictionary is empty in the source
WM_URL_OVERRIDES == [n \in {} |-> <<>>]

\* DeDupe without the `c and` test: empty slugs are kept
RECURSIVE DeDupe_KeepEmpty(_, _)
DeDupe_KeepEmpty(cs, seen) ==
    IF cs = <<>> THEN <<>>
    ELSE IF Head(cs) \notin seen
         THEN <<Head(cs)>> \o DeDupe_KeepEmpty(Tail(cs), seen \cup {Head(cs)})
         ELSE DeDupe_KeepEmpty(Tail(cs), seen)

\* the de-duplication loop: keeps the first occurrence of each non-empty slug
RECURSIVE DeDupe(_, _)
DeDupe(cs, seen) ==
    IF cs = <<>> THEN <<>>
    ELSE IF Head(cs) # <<>> /\ Head(cs) \notin seen
         THEN <<Head(cs)>> \o DeDupe(Tail(cs), seen \cup {Head(cs)})
         ELSE DeDupe(Tail(cs), seen)

\* wm_url_candidates with the two variant blocks in the other order
wm_url_candidates_InnerFirst(item_name) ==
    LET base == guess_wm_url_name(item_name)
        c1 == <<base>>
        c2 == IF Contains(base, InnerReceiver)
              THEN Append(c1, Replace(base, InnerReceiver, InnerReciever))
              ELSE c1
        c3 == IF EndsWith(base, SuffixReceiver)
              THEN Append(c2, SubSeq(base, 1, Len(base) - Len(SuffixReceiver)) \o SuffixReciever)
              ELSE c2
    IN  DeDupe(c3, {})

wm_url_candidates(item_name) ==
    LET over == IF item_name \in DOMAIN WM_URL_OVERRIDES
                THEN WM_URL_OVERRIDES[item_name] ELSE <<>>
        base == IF over # <<>> THEN over ELSE guess_wm_url_name(item_name)
        c1 == <<base>>
        c2 == IF EndsWith(base, SuffixReceiver)
              THEN Append(c1, SubSeq(base, 1, Len(base) - Len(SuffixReceiver)) \o SuffixReciever)
              ELSE c1
        c3 == IF Contains(base, InnerReceiver)
              THEN Append(c2, Replace(base, InnerReceiver, InnerReciever))
              ELSE c2
    IN  DeDupe(c3, {})


-----------------------------------------------------------------------------
(* JSON values as json.loads yields them.  Every value carries its Python   *)
(* type in t; numbers are held in tenths (126 is 12.6).                     *)

JNull == [t |-> "NoneType"]
JBool(b) == [t |-> "bool", b |-> b]
JNum(tenths) == [t |-> "float", v |-> tenths]
JNaN == [t |-> "float_nan"]
JStr(chars) == [t |-> "str", s |-> chars]
JList(items) == [t |-> "list", items |-> items]
\* a dict: f maps the keys present to their values
JDict(f) == [t |-> "dict", f |-> f]

\* isinstance(x, dict), isinstance(x, list)
IsDict(x) == x.t = "dict"
IsList(x) == x.t = "list"

\* bool(x), as `or` and `not` use it
Truthy(x) ==
    CASE x.t = "NoneType" -> FALSE
      [] x.t = "bool" -> x.b
      [] x.t = "float" -> x.v # 0
      [] x.t = "float_nan" -> TRUE
      [] x.t = "str" -> x.s # <<>>
      [] x.t = "list" -> x.items # <<>>
      [] x.t = "dict" -> DOMAIN x.f # {}

\* d.get(key, default) on a dict
DictGet(d, key, default) == IF key \in DOMAIN d.f THEN d.f[key] ELSE default

\* round() of a float held in tenths: to the nearest integer, ties to even
PyRound(tenths) ==
    LET q == tenths \div 10
        r == tenths % 10
    IN  IF r < 5 THEN q
        ELSE IF r > 5 THEN q + 1
        ELSE IF q % 2 = 0 THEN q ELSE q + 1

\* results of the functions that return Optional[int] or raise
RNone == [kind |-> "none", v |-> 0]
RInt(n) == [kind |-> "int", v |-> n]
RRaise == [kind |-> "raise", v |-> 0]

DigitVal(c) ==
    CASE c = "0" -> 0 [] c = "1" -> 1 [] c = "2" -> 2 [] c = "3" -> 3 [] c = "4" -> 4
      [] c = "5" -> 5 [] c = "6" -> 6 [] c = "7" -> 7 [] c = "8" -> 8 [] c = "9" -> 9

RECURSIVE DigitsVal(_)
DigitsVal(ds) ==
    IF ds = <<>> THEN 0 ELSE 10 * DigitsVal(SubSeq(ds, 1, Len(ds) - 1)) + DigitVal(ds[Len(ds)])

AllDigits(ds) == ds # <<>> /\ \A k \in 1..Len(ds) : ds[k] \in DigitChars

\* float() of a string, for the decimal spellings sign? digits ("." digit)?
\* around which whitespace is allowed: [ok |-> accepted, v |-> value in tenths]
FloatOfParts(neg, whole, last) ==
    IF AllDigits(whole) /\ AllDigits(last)
    THEN [ok |-> TRUE,
          v |-> IF neg THEN 0 - (10 * DigitsVal(whole) + DigitsVal(last))
                ELSE 10 * DigitsVal(whole) + DigitsVal(last)]
    ELSE [ok |-> FALSE, v |-> 0]

FloatOfUnsigned(neg, s1) ==
    IF Len(s1) >= 3 /\ s1[Len(s1) - 1] = "."
    THEN FloatOfParts(neg, SubSeq(s1, 1, Len(s1) - 2), <<s1[Len(s1)]>>)
    ELSE FloatOfParts(neg, s1, <<"0">>)

FloatOfStripped(s0) ==
    IF s0 # <<>> /\ Head(s0) \in {"-", "+"}
    THEN FloatOfUnsigned(Head(s0) = "-", Tail(s0))
    ELSE FloatOfUnsigned(FALSE, s0)

FloatOfStr(chars) == FloatOfStripped(Strip(chars, SpaceChars))

IntRoundParsed(fl) == IF fl.ok THEN RInt(PyRound(fl.v)) ELSE RRaise

\* int(round(float(med))): float() takes numbers, booleans and numeric strings,
\* round() raises on nan; RRaise stands for any exception raised here
IntRoundFloat(med) ==
    CASE med.t = "float" -> RInt(PyRound(med.v))
      [] med.t = "bool" -> RInt(IF med.b THEN 1 ELSE 0)
      [] med.t = "str" -> IntRoundParsed(FloatOfStr(med.s))
      [] OTHER -> RRaise

\* lines 278-281: the try block and its `except Exception: return None`
IntOrNone(r) == IF r.kind = "raise" THEN RNone ELSE r

\* lines 275-281, med = last.get("median")
MedianOfField(med) == IF med = JNull THEN RNone ELSE IntOrNone(IntRoundFloat(med))

\* lines 272-281, last = arr[-1]
MedianOfLast(last) ==
    IF ~IsDict(last) THEN RNone ELSE MedianOfField(DictGet(last, "median", JNull))

\* lines 270-281, arr = stats_section.get(window_key) or []
MedianOfArr(arr) ==
    IF ~IsList(arr) \/ ~Truthy(arr) THEN RNone ELSE MedianOfLast(arr.items[Len(arr.items)])

\* x or []
OrEmptyList(x) == IF Truthy(x) THEN x ELSE JList(<<>>)

_median_from_stats_section(stats_section, window_key) ==
    IF ~IsDict(stats_section) THEN RNone
    ELSE MedianOfArr(OrEmptyList(DictGet(stats_section, window_key, JNull)))

\* the try body with closed/48hours tried before open/90days
extract_try_body_ClosedFirst(payload) ==
    IF ~IsDict(payload) THEN RRaise
    ELSE LET p == DictGet(payload, "payload", JDict(<<>>))
         IN  IF ~IsDict(p) THEN RRaise
             ELSE LET closed == DictGet(p, "statistics_closed", JNull)
                      open_ == DictGet(p, "statistics_open", JNull)
                      v1 == _median_from_stats_section(closed, "90days")
                      v2 == _median_from_stats_section(open_, "90days")
                      v3 == _median_from_stats_section(closed, "48hours")
                      v4 == _median_from_stats_section(open_, "48hours")
                  IN  IF v1 # RNone THEN v1
                      ELSE IF v3 # RNone THEN v3
                      ELSE IF v2 # RNone THEN v2
                      ELSE IF v4 # RNone THEN v4
                      ELSE RNone

\* the try body with `if v:` in place of `if v is not None:`
extract_try_body_Truthy(payload) ==
    IF ~IsDict(payload) THEN RRaise
    ELSE LET p == DictGet(payload, "payload", JDict(<<>>))
         IN  IF ~IsDict(p) THEN RRaise
             ELSE LET closed == DictGet(p, "statistics_closed", JNull)
                      open_ == DictGet(p, "statistics_open", JNull)
                      v1 == _median_from_stats_section(closed, "90days")
                      v2 == _median_from_stats_section(open_, "90days")
                      v3 == _median_from_stats_section(closed, "48hours")
                      v4 == _median_from_stats_section(open_, "48hours")
                  IN  IF v1 # RNone /\ v1.v # 0 THEN v1
                      ELSE IF v2 # RNone /\ v2.v # 0 THEN v2
                      ELSE IF v3 # RNone /\ v3.v # 0 THEN v3
                      ELSE IF v4 # RNone /\ v4.v # 0 THEN v4
                      ELSE RNone

\* lines 300-320: the body of the second try block of wm_price_from_statistics;
\* RRaise when payload or payload["payload"] has no .get
extract_try_body(payload) ==
    IF ~IsDict(payload) THEN RRaise
    ELSE LET p == DictGet(payload, "payload", JDict(<<>>))
         IN  IF ~IsDict(p) THEN RRaise
             ELSE LET closed == DictGet(p, "statistics_closed", JNull)
                      open_ == DictGet(p, "statistics_open", JNull)
                      v1 == _median_from_stats_section(closed, "90days")
                      v2 == _median_from_stats_section(open_, "90days")
                      v3 == _median_from_stats_section(closed, "48hours")
                      v4 == _median_from_stats_section(open_, "48hours")
                  IN  IF v1 # RNone THEN v1
                      ELSE IF v2 # RNone THEN v2
                      ELSE IF v3 # RNone THEN v3
                      ELSE IF v4 # RNone THEN v4
                      ELSE RNone

\* the extraction without the `except Exception` clause
price_from_payload_NoExcept(payload) == extract_try_body(payload)

\* lines 299-322: the try block with its `except Exception: return None`
price_from_payload(payload) ==
    LET r == extract_try_body(payload)
    IN  IF r.kind = "raise" THEN RNone ELSE r

-----------------------------------------------------------------------------
(* Exceptions, and the values of main's variables before main runs *)

NoErr == [kind |-> "none", code |-> 0, msg |-> ""]
HTTPError(code) == [kind |-> "HTTPError", code |-> code, msg |-> ""]
\* an exception that is no HTTPError: URLError (a timeout, a refused
\* connection), ConnectionResetError, JSONDecodeError
OtherError(kind) == [kind |-> kind, code |-> 0, msg |-> ""]
RuntimeError(msg) == [kind |-> "RuntimeError", code |-> 0, msg |-> msg]

NoFrame ==
    [caller |-> "none", url |-> <<>>, i |-> 0, last_err |-> NoErr,
     requests |-> 0, backoffs |-> <<>>]

NoRet == [kind |-> "none", val |-> JNull, err |-> NoErr]

MainIdle(at) ==
    /\ pc = at
    /\ env = [mode |-> "none", misses |-> 0]
    /\ h = NoFrame
    /\ ret = NoRet
    /\ relics_body = JNull
    /\ relics_min = <<>>
    /\ reward_items = <<>>
    /\ idx = 0
    /\ cands = <<>>
    /\ ci = 0
    /\ v = RNone
    /\ prices = <<>>
    /\ missing_items = <<>>
    /\ item_requests = 0
    /\ sleeps = [pause |-> 0, pacing |-> 0]
    /\ files = <<>>
    /\ raised = NoErr

-----------------------------------------------------------------------------
(* SpecSlug: wm_url_candidates applied to bounded item names *)

MaxWords == 4

NameWord_Receiver == <<"R", "e", "c", "e", "i", "v", "e", "r">>

NameWords ==
    { NameWord_Receiver,
      <<"S", "o", "m", "a">>,
      <<" ">>, <<"&">>, <<"_">>, <<"#">>, <<"1">> }

RECURSIVE WordSeqs(_)
WordSeqs(n) ==
    IF n = 0 THEN {<<>>}
    ELSE LET shorter == WordSeqs(n - 1)
         IN  shorter \cup {Append(ws, w) : ws \in {x \in shorter : Len(x) = n - 1}, w \in NameWords}

SomaPrimeReceiver ==
    <<"S", "o", "m", "a", " ", "P", "r", "i", "m", "e", " ",
      "R", "e", "c", "e", "i", "v", "e", "r">>

\* "1 Receiver 1 Receiver" and "1 Receiver Receiver 1"
OneReceiverOneReceiver ==
    <<"1", " ">> \o NameWord_Receiver \o <<" ", "1", " ">> \o NameWord_Receiver
OneReceiverReceiverOne ==
    <<"1", " ">> \o NameWord_Receiver \o <<" ">> \o NameWord_Receiver \o <<" ", "1">>

SlugNames ==
    {Concat(ws) : ws \in WordSeqs(MaxWords)}
        \cup {SomaPrimeReceiver, OneReceiverOneReceiver, OneReceiverReceiverOne,
              <<"\t", "A", "-", "b", "'", "s", " ">>}

InitSlug ==
    /\ slug_pc = "call"
    /\ item_arg \in SlugNames
    /\ slug_out = <<>>
    /\ ext_pc = "idle"
    /\ ext_doc = JNull
    /\ ext_out = RNone
    /\ MainIdle("idle")

CallWmUrlCandidates ==
    /\ slug_pc = "call"
    /\ slug_out' = wm_url_candidates(item_arg)
    /\ slug_pc' = "done"
    /\ UNCHANGED <<item_arg, extVars, mainVars>>

NextSlug == CallWmUrlCandidates

SpecSlug == InitSlug /\ [][NextSlug]_vars

-----------------------------------------------------------------------------
(* Claims about the slug derivation (checked under SpecSlug) *)

\* the name holds a character that survives normalization: one that lowercases
\* into [a-z0-9], or an "&" (which becomes "and")
HasSlugChar(name) ==
    \E k \in 1..Len(name) : IsSlugChar(Lower(name[k])) \/ name[k] = "&"

\* the maximal runs of [a-z0-9] characters of s, in order
RECURSIVE SlugRuns(_, _)
SlugRuns(s, run) ==
    IF s = <<>> THEN (IF run = <<>> THEN <<>> ELSE <<run>>)
    ELSE IF IsSlugChar(Head(s)) THEN SlugRuns(Tail(s), Append(run, Head(s)))
    ELSE (IF run = <<>> THEN <<>> ELSE <<run>>) \o SlugRuns(Tail(s), <<>>)

RECURSIVE JoinUnderscore(_)
JoinUnderscore(runs) ==
    IF runs = <<>> THEN <<>>
    ELSE IF Len(runs) = 1 THEN runs[1]
    ELSE runs[1] \o <<"_">> \o JoinUnderscore(Tail(runs))

\* the normalized name as the claim words it: lowercased, "&" spelled out, the
\* runs of [a-z0-9] joined by single underscores
NormalizedName(name) ==
    JoinUnderscore(SlugRuns(Replace(LowerStr(name), <<"&">>, <<"a", "n", "d">>), <<>>))

\* base slug first, then the suffix variant, then the interior variant
ExpectedCandidates(name) ==
    LET base == NormalizedName(name)
        suffix == IF EndsWith(base, SuffixReceiver)
                  THEN <<SubSeq(base, 1, Len(base) - Len(Receiver)) \o Reciever>>
                  ELSE <<>>
        inner == IF Contains(base, InnerReceiver)
                 THEN <<Replace(base, InnerReceiver, InnerReciever)>>
                 ELSE <<>>
    IN  <<base>> \o suffix \o inner

NoSlugTwice(cs) ==
    \A i, j \in 1..Len(cs) : cs[i] = cs[j] => i = j

\* C7 as stated: wm_url_candidates returns at least one candidate for every item
\* name, the empty, whitespace-only and punctuation-only names included.
C7_AtLeastOneCandidate ==
    slug_pc = "done" => Len(slug_out) >= 1

\* C7 amended: wm_url_candidates returns at least one candidate exactly for the
\* names that hold a letter, a digit or an "&"; for a name that is empty,
\* whitespace only or made only of other characters it returns the empty list.
C7_CandidateIffSlugChar ==
    slug_pc = "done" => (Len(slug_out) >= 1 <=> HasSlugChar(item_arg))

C7_Witness ==
    /\ slug_pc = "done"
    /\ item_arg = <<" ", "#", " ">>
    /\ slug_out = <<>>

\* C8 as stated: for every item name the list is the base slug (the normalized
\* name), then the "_receiver" -> "_reciever" suffix variant, then the interior
\* variant, with no slug twice.
C8_BaseThenVariants ==
    slug_pc = "done" =>
        /\ slug_out = ExpectedCandidates(item_arg)
        /\ NoSlugTwice(slug_out)

\* C8 amended: the same, for every item name whose normalized name is not empty;
\* "Soma Prime Receiver" gives soma_prime_receiver, soma_prime_reciever.
C8_BaseThenVariantsNonEmpty ==
    slug_pc = "done" =>
        /\ NormalizedName(item_arg) # <<>> =>
                /\ slug_out = ExpectedCandidates(item_arg)
                /\ NoSlugTwice(slug_out)
        /\ item_arg = SomaPrimeReceiver =>
                slug_out = << <<"s", "o", "m", "a", "_", "p", "r", "i", "m", "e", "_">> \o Receiver,
                              <<"s", "o", "m", "a", "_", "p", "r", "i", "m", "e", "_">> \o Reciever >>

\* a name with both variants: three candidates
C8_Witness ==
    /\ slug_pc = "done"
    /\ item_arg = OneReceiverOneReceiver
    /\ Len(slug_out) = 3
    /\ slug_out[2] = <<"1", "_">> \o Receiver \o <<"_", "1", "_">> \o Reciever
    /\ slug_out[3] = <<"1", "_">> \o Reciever \o <<"_", "1", "_">> \o Receiver

-----------------------------------------------------------------------------
(* SpecExtract: the price extraction applied to bounded statistics documents *)

\* marks a key left out of a dict under construction; never part of a value
Absent == [t |-> "absent"]

\* the dict holding the keys of f whose value is not Absent
MkDict(f) == JDict([k \in {x \in DOMAIN f : f[x] # Absent} |-> f[k]])

StrNA == JStr(<<"n", "/", "a">>)

\* the median fields tried: null, "n/a", "12.6", true, NaN, 0, 12.5, 12.6, -1.4
DocMedians ==
    { JNull, StrNA, JStr(<<"1", "2", ".", "6">>), JBool(TRUE), JNaN,
      JNum(0), JNum(125), JNum(126), JNum(-14) }

StatsRecord(med) == MkDict([median |-> med, volume |-> JNum(30)])

\* the dated records: a non-object, an object without median, objects with one
DocRecords == {JNum(70), StatsRecord(Absent)} \cup {StatsRecord(m) : m \in DocMedians}

\* what a window key can hold: nothing, null, a non-list, lists of records
DocWindows ==
    {Absent, JNull, JNum(50), JList(<<>>)}
        \cup {JList(<<r>>) : r \in DocRecords}
        \cup { JList(<<StatsRecord(JNum(5000)), StatsRecord(JNum(374))>>),
               JList(<<StatsRecord(JNum(5000)), JNum(70)>>),
               JList(<<StatsRecord(Absent), StatsRecord(JNum(5000))>>) }

\* what a statistics section can hold: nothing, null, a non-mapping, a mapping
DocSections ==
    {Absent, JNull, StrNA}
        \cup {MkDict([90days |-> w90, 48hours |-> w48]) : w90, w48 \in DocWindows}

\* the parsed bodies: not an object, no payload, payload not an object, payload
\* with two sections
StatsDocs ==
    {JNull, JList(<<>>), JDict(<<>>), MkDict([payload |-> JNull]),
     MkDict([payload |-> JList(<<>>)])}
        \cup {MkDict([payload |-> MkDict([statistics_closed |-> c, statistics_open |-> o])]) :
                c, o \in DocSections}

InitExtract ==
    /\ ext_pc = "call"
    /\ ext_doc \in StatsDocs
    /\ ext_out = RNone
    /\ slug_pc = "idle"
    /\ item_arg = <<>>
    /\ slug_out = <<>>
    /\ MainIdle("idle")

CallPriceFromPayload ==
    /\ ext_pc = "call"
    /\ ext_out' = price_from_payload(ext_doc)
    /\ ext_pc' = "done"
    /\ UNCHANGED <<ext_doc, slugVars, mainVars>>

NextExtract == CallPriceFromPayload

SpecExtract == InitExtract /\ [][NextExtract]_vars

-----------------------------------------------------------------------------
(* Claims about the price extraction (checked under SpecExtract) *)

\* the four stages in the documented order
Stages ==
    << <<"statistics_closed", "90days">>, <<"statistics_open", "90days">>,
       <<"statistics_closed", "48hours">>, <<"statistics_open", "48hours">> >>

\* the value at doc.payload.<section>.<window> when every level on the way is an
\* object holding the next key, else Absent
StageWindow(doc, k) ==
    LET sec == Stages[k][1]
        win == Stages[k][2]
    IN  IF doc.t = "dict" /\ "payload" \in DOMAIN doc.f
           /\ doc.f["payload"].t = "dict" /\ sec \in DOMAIN doc.f["payload"].f
           /\ doc.f["payload"].f[sec].t = "dict"
           /\ win \in DOMAIN doc.f["payload"].f[sec].f
        THEN doc.f["payload"].f[sec].f[win]
        ELSE Absent

\* the median has a numeric value: a number, a boolean, a string spelling a number
IsNumericMedian(med) ==
    med.t = "float" \/ med.t = "bool" \/ (med.t = "str" /\ FloatOfStr(med.s).ok)

MedianTenths(med) ==
    CASE med.t = "bool" -> (IF med.b THEN 10 ELSE 0)
      [] med.t = "str" -> FloatOfStr(med.s).v
      [] OTHER -> med.v

\* the stage has data: its window is a non-empty list whose last record is an
\* object with a numeric median
StageAvailable(doc, k) ==
    LET w == StageWindow(doc, k)
    IN  /\ w.t = "list"
        /\ w.items # <<>>
        /\ w.items[Len(w.items)].t = "dict"
        /\ "median" \in DOMAIN w.items[Len(w.items)].f
        /\ IsNumericMedian(w.items[Len(w.items)].f["median"])

\* the median of the last record of the stage's window, in tenths
StageLastMedian(doc, k) ==
    LET w == StageWindow(doc, k)
    IN  MedianTenths(w.items[Len(w.items)].f["median"])

\* n is an integer nearest to tenths/10
IsNearestInteger(n, tenths) == 10 * n - 5 <= tenths /\ tenths <= 10 * n + 5

\* C9: the extraction returns the result of the first available stage in the
\* order closed/90days, open/90days, closed/48hours, open/48hours: the rounded
\* median of the last record of that stage's window; a later stage is used only
\* when every earlier one is unavailable.
C9_FirstAvailableStage ==
    ext_pc = "done" =>
        \A k \in 1..4 :
            (StageAvailable(ext_doc, k) /\ \A j \in 1..(k - 1) : ~StageAvailable(ext_doc, j))
                => /\ ext_out.kind = "int"
                   /\ IsNearestInteger(ext_out.v, StageLastMedian(ext_doc, k))

\* closed/90days (two records, the last with median 37.4) and open/48hours (12.6)
\* both have data: the result is 37
C9_Witness ==
    /\ ext_pc = "done"
    /\ StageAvailable(ext_doc, 1) /\ StageAvailable(ext_doc, 4)
    /\ Len(StageWindow(ext_doc, 1).items) = 2
    /\ StageLastMedian(ext_doc, 1) = 374
    /\ StageLastMedian(ext_doc, 4) = 126
    /\ ext_out = RInt(37)

\* C10: the extraction never raises; a malformed stage counts as unavailable and
\* the other stages are still tried: the result is an integer when some stage is
\* available and none when no stage is.
C10_NeverRaises ==
    ext_pc = "done" =>
        /\ ext_out.kind # "raise"
        /\ (\E k \in 1..4 : StageAvailable(ext_doc, k)) => ext_out.kind = "int"
        /\ (\A k \in 1..4 : ~StageAvailable(ext_doc, k)) => ext_out = RNone

\* closed/90days ends with a record that is no object, open/90days has a
\* non-numeric median, closed/48hours has data: the result is its value
C10_Witness ==
    /\ ext_pc = "done"
    /\ StageWindow(ext_doc, 1) = JList(<<StatsRecord(JNum(5000)), JNum(70)>>)
    /\ StageWindow(ext_doc, 2) = JList(<<StatsRecord(StrNA)>>)
    /\ StageAvailable(ext_doc, 3)
    /\ ext_out.kind = "int"

\* the payload is not an object: none
C10_WitnessMalformedPayload ==
    /\ ext_pc = "done"
    /\ ext_doc = MkDict([payload |-> JList(<<>>)])
    /\ ext_out = RNone

-----------------------------------------------------------------------------
(* http_json *)

ATTEMPTS == 4

TransientStatus == {429, 500, 502, 503, 504}
NoDataStatus == {404, 403}

\* what one pass through the try block of http_json meets: a body that parses
\* (val), an HTTPError (code), or another exception (kind names its class)
Body(val) == [kind |-> "body", val |-> val, code |-> 0]
Status(code) == [kind |-> "HTTPError", val |-> JNull, code |-> code]
Failure(class) == [kind |-> class, val |-> JNull, code |-> 0]

Return(val) == [kind |-> "return", val |-> val, err |-> NoErr]
Raise(err) == [kind |-> "raise", val |-> JNull, err |-> err]

\* the frame of a fresh call http_json(url) made by `caller`
Frame(caller, url) ==
    [caller |-> caller, url |-> url, i |-> 0, last_err |-> NoErr,
     requests |-> 0, backoffs |-> <<>>]

\* http_json_step retrying after every HTTPError, 404 and 403 included
http_json_step_RetryAll(f, r) ==
    LET f1 == [f EXCEPT !.requests = @ + 1]
        e == IF r.kind = "HTTPError" THEN HTTPError(r.code) ELSE OtherError(r.kind)
        f2 == [f1 EXCEPT !.last_err = e, !.backoffs = Append(@, f.i), !.i = f.i + 1]
    IN  IF r.kind = "body" THEN [h |-> f1, ret |-> Return(r.val)]
        ELSE IF f2.i < ATTEMPTS THEN [h |-> f2, ret |-> NoRet]
        ELSE [h |-> f2, ret |-> Raise(f2.last_err)]

\* http_json_step with the `except Exception` branch re-raising at once
http_json_step_NoRetryOther(f, r) ==
    LET f1 == [f EXCEPT !.requests = @ + 1]
        e == IF r.kind = "HTTPError" THEN HTTPError(r.code) ELSE OtherError(r.kind)
        retried == r.kind = "HTTPError" /\ r.code \in TransientStatus
        f2 == [f1 EXCEPT !.last_err = e, !.backoffs = Append(@, f.i), !.i = f.i + 1]
    IN  IF r.kind = "body" THEN [h |-> f1, ret |-> Return(r.val)]
        ELSE IF ~retried THEN [h |-> [f1 EXCEPT !.last_err = e], ret |-> Raise(e)]
        ELSE IF f2.i < ATTEMPTS THEN [h |-> f2, ret |-> NoRet]
        ELSE [h |-> f2, ret |-> Raise(f2.last_err)]

\* http_json_step with one attempt more than ATTEMPTS
http_json_step_OneMore(f, r) ==
    LET f1 == [f EXCEPT !.requests = @ + 1]
        e == IF r.kind = "HTTPError" THEN HTTPError(r.code) ELSE OtherError(r.kind)
        retried == r.kind # "HTTPError" \/ r.code \in TransientStatus
        f2 == [f1 EXCEPT !.last_err = e, !.backoffs = Append(@, f.i), !.i = f.i + 1]
    IN  IF r.kind = "body" THEN [h |-> f1, ret |-> Return(r.val)]
        ELSE IF ~retried THEN [h |-> [f1 EXCEPT !.last_err = e], ret |-> Raise(e)]
        ELSE IF f2.i <= ATTEMPTS THEN [h |-> f2, ret |-> NoRet]
        ELSE [h |-> f2, ret |-> Raise(f2.last_err)]

\* one iteration of the for loop of http_json with answer r, and, when it was
\* the last one, the raise after the loop.  backoffs collects the exponents i
\* of the time.sleep(1.5 ** i) calls made.
http_json_step(f, r) ==
    LET f1 == [f EXCEPT !.requests = @ + 1]
        e == IF r.kind = "HTTPError" THEN HTTPError(r.code) ELSE OtherError(r.kind)
        retried == r.kind # "HTTPError" \/ r.code \in TransientStatus
        f2 == [f1 EXCEPT !.last_err = e, !.backoffs = Append(@, f.i), !.i = f.i + 1]
    IN  IF r.kind = "body" THEN [h |-> f1, ret |-> Return(r.val)]
        ELSE IF ~retried THEN [h |-> [f1 EXCEPT !.last_err = e], ret |-> Raise(e)]
        ELSE IF f2.i < ATTEMPTS THEN [h |-> f2, ret |-> NoRet]
        ELSE [h |-> f2, ret |-> Raise(f2.last_err)]

-----------------------------------------------------------------------------
(* build_vaulted_map, build_relics_min, unique_reward_items *)

\* a dict holding k alone
Put_Only(m, k, x) == [q \in {k} |-> x]

\* m[k] = x on a dict
Put(m, k, x) == [q \in DOMAIN m \cup {k} |-> IF q = k THEN x ELSE m[q]]

\* (d.get(key) or "").strip(), for a field that holds a string when it is set
StrField(d, key) ==
    LET x == DictGet(d, key, JNull)
    IN  IF Truthy(x) THEN Strip(x.s, SpaceChars) ELSE <<>>

RECURSIVE VaultLoop(_, _)
VaultLoop(items, m) ==
    IF items = <<>> THEN m
    ELSE LET r == Head(items)
             name == IF IsDict(r) THEN DictGet(r, "name", JNull) ELSE JNull
             vaulted == IF IsDict(r) THEN DictGet(r, "vaulted", JNull) ELSE JNull
             keep == /\ name.t = "str"
                     /\ Strip(name.s, SpaceChars) # <<>>
                     /\ vaulted.t = "bool"
         IN  VaultLoop(Tail(items),
                       IF keep THEN Put(m, Strip(name.s, SpaceChars), vaulted.b) ELSE m)

\* r is how http_json(RELICS_VAULT_MAP_URL) ended
build_vaulted_map(r) ==
    IF r.kind = "raise" THEN <<>>
    ELSE IF IsList(r.val) THEN VaultLoop(r.val.items, <<>>)
    ELSE <<>>

\* float(chance) if chance is not None else None, None on an exception
ChanceOf(rw) ==
    LET c == DictGet(rw, "chance", JNull)
    IN  CASE c.t = "float" -> c
          [] c.t = "float_nan" -> c
          [] c.t = "bool" -> JNum(IF c.b THEN 10 ELSE 0)
          [] c.t = "str" /\ FloatOfStr(c.s).ok -> JNum(FloatOfStr(c.s).v)
          [] OTHER -> JNull

\* a or b or c or "" over three fields of a reward, stripped
RewardItem(rw) ==
    LET a == DictGet(rw, "itemName", JNull)
        b == DictGet(rw, "item", JNull)
        c == DictGet(rw, "name", JNull)
        x == IF Truthy(a) THEN a ELSE IF Truthy(b) THEN b
             ELSE IF Truthy(c) THEN c ELSE JStr(<<>>)
    IN  Strip(x.s, SpaceChars)

RewardType(rw) ==
    LET a == DictGet(rw, "rarity", JNull)
        b == DictGet(rw, "type", JNull)
        x == IF Truthy(a) THEN a ELSE IF Truthy(b) THEN b ELSE JStr(<<>>)
    IN  Strip(x.s, SpaceChars)

RECURSIVE RewardsLoop(_)
RewardsLoop(rws) ==
    IF rws = <<>> THEN <<>>
    ELSE LET rw == Head(rws)
         IN  IF ~IsDict(rw) THEN RewardsLoop(Tail(rws))
             ELSE IF RewardItem(rw) = <<>> THEN RewardsLoop(Tail(rws))
             ELSE <<[item |-> RewardItem(rw), chance |-> ChanceOf(rw), type |-> RewardType(rw)]>>
                      \o RewardsLoop(Tail(rws))

\* the loop over payload["relics"]: the list `out` before it is sorted
RECURSIVE RelicsLoop(_, _, _)
RelicsLoop(relics, seen, vault_map) ==
    IF relics = <<>> THEN <<>>
    ELSE LET r == Head(relics)
             rest == Tail(relics)
         IN  IF ~IsDict(r) THEN RelicsLoop(rest, seen, vault_map)
             ELSE IF StrField(r, "state") # <<"I", "n", "t", "a", "c", "t">>
                  THEN RelicsLoop(rest, seen, vault_map)
             ELSE LET tier == StrField(r, "tier")
                      code == StrField(r, "relicName")
                      full_name == Strip(tier \o <<" ">> \o code, SpaceChars)
                      got == DictGet(r, "rewards", JNull)
                      rewards == IF Truthy(got) THEN got ELSE JList(<<>>)
                      out_rewards == IF IsList(rewards) THEN RewardsLoop(rewards.items) ELSE <<>>
                      vaulted == IF full_name \in DOMAIN vault_map
                                 THEN vault_map[full_name] ELSE TRUE
                  IN  IF tier = <<>> \/ code = <<>> THEN RelicsLoop(rest, seen, vault_map)
                      ELSE IF full_name \in seen THEN RelicsLoop(rest, seen, vault_map)
                      ELSE IF ~IsList(rewards) \/ ~Truthy(rewards) \/ out_rewards = <<>>
                           THEN RelicsLoop(rest, seen \cup {full_name}, vault_map)
                      ELSE <<[tier |-> tier, name |-> code, vaulted |-> vaulted,
                              rewards |-> out_rewards]>>
                               \o RelicsLoop(rest, seen \cup {full_name}, vault_map)

\* TIER_ORDER.get(t, 99)
TierRank(t) ==
    CASE t = <<"L", "i", "t", "h">> -> 0
      [] t = <<"M", "e", "s", "o">> -> 1
      [] t = <<"N", "e", "o">> -> 2
      [] t = <<"A", "x", "i">> -> 3
      [] OTHER -> 99

\* sort_key(x) < sort_key(y)
SortKeyLess(x, y) ==
    \/ TierRank(x.tier) < TierRank(y.tier)
    \/ TierRank(x.tier) = TierRank(y.tier) /\ StrLess(x.name, y.name)

\* out.sort(key=sort_key): stable
RECURSIVE SortRelics(_)
SortRelics(out) ==
    IF out = <<>> THEN <<>>
    ELSE LET x == out[Len(out)]
             front == SortRelics(SubSeq(out, 1, Len(out) - 1))
             n == Cardinality({k \in 1..Len(front) : ~SortKeyLess(x, front[k])})
         IN  SubSeq(front, 1, n) \o <<x>> \o SubSeq(front, n + 1, Len(front))

\* payload is what http_json(RELICS_ALL_URL) returned
RelicsFormatOk(payload) ==
    /\ IsDict(payload)
    /\ "relics" \in DOMAIN payload.f
    /\ IsList(payload.f["relics"])

unique_reward_items(rm) ==
    SortedStrings(UNION {{rm[j].rewards[k].item : k \in 1..Len(rm[j].rewards)} :
                            j \in 1..Len(rm)} \ {<<>>})

-----------------------------------------------------------------------------
(* wm_price_from_statistics and the files *)

\* urllib.parse.quote on one character
QuoteChar(c) ==
    CASE c = " " -> <<"%", "2", "0">>
      [] c = "\t" -> <<"%", "0", "9">>
      [] c = "#" -> <<"%", "2", "3">>
      [] c = "&" -> <<"%", "2", "6">>
      [] c = "'" -> <<"%", "2", "7">>
      [] c = "+" -> <<"%", "2", "B">>
      [] OTHER -> <<c>>

Quote(str) == Concat([k \in 1..Len(str) |-> QuoteChar(str[k])])

RELICS_ALL_URL == [endpoint |-> "warframe-drop-data/relics.json", url_name |-> <<>>]
RELICS_VAULT_MAP_URL == [endpoint |-> "warframe-relic-data/Relics.min.json", url_name |-> <<>>]
\* WM_ITEM_STATS.format(url_name=...)
WM_ITEM_STATS(url_name) == [endpoint |-> "items/{url_name}/statistics", url_name |-> url_name]

\* wm_price_from_statistics with 404 alone taken for "no data"
wm_price_from_statistics_Only404(r) ==
    IF r.kind = "raise"
    THEN IF r.err.kind = "HTTPError" /\ r.err.code = 404 THEN RNone ELSE RRaise
    ELSE price_from_payload(r.val)

\* wm_price_from_statistics once its http_json call has ended as r: RRaise when
\* the exception of r propagates
wm_price_from_statistics(r) ==
    IF r.kind = "raise"
    THEN IF r.err.kind = "HTTPError" /\ r.err.code \in NoDataStatus THEN RNone ELSE RRaise
    ELSE price_from_payload(r.val)

RELICS_OUT == "data/Relics.min.json"
PRICES_OUT == "data/prices.json"
MISSING_TXT == "data/missing_prices.txt"
MISSING_JSON == "data/missing_prices.json"

MIN_PRICES == 25

Range(seq) == {seq[k] : k \in 1..Len(seq)}

\* the files after write_missing_debug(missing)
write_missing_debug(fs, missing) ==
    LET missing_sorted == SortedStrings(Range(missing))
    IN  Put(Put(fs, MISSING_TXT, missing_sorted), MISSING_JSON, missing_sorted)

-----------------------------------------------------------------------------
(* The servers.  A run is of one of two kinds, fixed by env at its start:     *)
(*   "any"     the catalog holds up to MaxRewards rewards drawn from ItemPool *)
(*             and every request may be answered in any way;                  *)
(*   "steady"  the catalog holds BulkItems rewards, enough to pass            *)
(*             MIN_PRICES, and the market answers each request with           *)
(*             StandardDoc, but for up to env.misses requests with a 404.     *)

MaxRewards == 2
BulkItems == 26
MaxMisses == 2

Str_Intact == <<"I", "n", "t", "a", "c", "t">>
Str_Radiant == <<"R", "a", "d", "i", "a", "n", "t">>
Str_Axi == <<"A", "x", "i">>
Str_Lith == <<"L", "i", "t", "h">>
Str_A1 == <<"A", "1">>

CatalogReward(name) ==
    JDict([itemName |-> JStr(name), chance |-> JNum(253), rarity |-> JStr(<<"R", "a", "r", "e">>)])

CatalogRelic(state, tier, code, names) ==
    JDict([state |-> JStr(state), tier |-> JStr(tier), relicName |-> JStr(code),
           rewards |-> JList([k \in 1..Len(names) |-> CatalogReward(names[k])])])

\* relics.json with one Intact relic "Axi A1" holding the rewards `names`, its
\* Radiant twin, an entry that is no object and a relic without rewards
Catalog(names) ==
    JDict([relics |-> JList(<< CatalogRelic(Str_Radiant, Str_Axi, Str_A1, names),
                               JNull,
                               CatalogRelic(Str_Intact, Str_Axi, <<" ">> \o Str_A1, names),
                               CatalogRelic(Str_Intact, Str_Lith, Str_A1, <<>>) >>)])

\* reward names with no, one, two and three slug candidates
ItemPool ==
    { <<"#">>, <<"S", "o", "m", "a">>,
      <<"S", "o", "m", "a", " ">> \o NameWord_Receiver,
      OneReceiverOneReceiver }

\* the rewards of a relic naming each item of S: in descending order, the
\* greatest once more at the end
RewardNames(S) ==
    LET up == SortedStrings(S)
        n == Len(up)
    IN  IF n = 0 THEN <<>> ELSE [k \in 1..(n + 1) |-> IF k > n THEN up[n] ELSE up[n + 1 - k]]

DigitChar(d) == <<"0", "1", "2", "3", "4", "5", "6", "7", "8", "9">>[d + 1]

\* "p01", "p02", ...
BulkName(k) == <<"p", DigitChar(k \div 10), DigitChar(k % 10)>>

BulkCatalog == Catalog([k \in 1..BulkItems |-> BulkName(k)])

\* the vault list: marks "Axi A1" as not vaulted
VaultList ==
    JList(<<JDict([name |-> JStr(<<"A", "x", "i", " ", "A", "1">>), vaulted |-> JBool(FALSE)])>>)

StatsDoc(closed, open_) ==
    MkDict([payload |-> MkDict([statistics_closed |-> closed, statistics_open |-> open_])])

\* closed/90days ends with median 12.6
StandardDoc ==
    StatsDoc(MkDict([90days |-> JList(<<StatsRecord(JNum(5000)), StatsRecord(JNum(126))>>),
                     48hours |-> JList(<<StatsRecord(JNum(110))>>)]),
             MkDict([90days |-> JList(<<>>), 48hours |-> JList(<<StatsRecord(JNum(140))>>)]))

\* only closed/48hours has data: median 50
Closed48Doc ==
    StatsDoc(MkDict([90days |-> JList(<<>>), 48hours |-> JList(<<StatsRecord(JNum(500))>>)]),
             MkDict([90days |-> JList(<<>>), 48hours |-> JList(<<>>)]))

\* closed/90days ends with median 0, open/90days has 7
ZeroDoc ==
    StatsDoc(MkDict([90days |-> JList(<<StatsRecord(JNum(0))>>), 48hours |-> Absent]),
             MkDict([90days |-> JList(<<StatsRecord(JNum(70))>>), 48hours |-> Absent]))

\* closed/90days ends with median -1.4
NegativeDoc ==
    StatsDoc(MkDict([90days |-> JList(<<StatsRecord(JNum(-14))>>), 48hours |-> Absent]), Absent)

\* the bodies the market answers with in an "any" run
WmDocs == {StandardDoc, Closed48Doc, ZeroDoc, NegativeDoc, JDict(<<>>), JList(<<>>)}

HttpStatuses == TransientStatus \cup NoDataStatus \cup {400, 401}
FailureClasses == {"URLError", "ConnectionResetError", "JSONDecodeError"}

Errors == {Status(c) : c \in HttpStatuses} \cup {Failure(k) : k \in FailureClasses}

\* what the server behind url may answer in environment e
Answers(url, e) ==
    IF e.mode = "any"
    THEN Errors \cup
         (CASE url = RELICS_ALL_URL ->
                    {Body(JList(<<>>)), Body(JDict([relics |-> JList(<<>>)]))}
                        \cup {Body(Catalog(RewardNames(S))) :
                                 S \in {T \in SUBSET ItemPool : Cardinality(T) <= MaxRewards}}
            [] url = RELICS_VAULT_MAP_URL -> {Body(VaultList)}
            [] OTHER -> {Body(d) : d \in WmDocs})
    ELSE CASE url = RELICS_ALL_URL -> {Body(BulkCatalog)}
           [] url = RELICS_VAULT_MAP_URL -> {Body(JList(<<>>))}
           [] OTHER -> {Body(StandardDoc)} \cup (IF e.misses > 0 THEN {Status(404)} ELSE {})

\* the environment after it gave answer r
EnvAfter(e, r) ==
    IF e.mode = "steady" /\ r.kind = "HTTPError" THEN [e EXCEPT !.misses = @ - 1] ELSE e

-----------------------------------------------------------------------------
(* Spec: main *)

Init ==
    /\ pc = "main"
    /\ env \in {[mode |-> "any", misses |-> 0]}
                \cup {[mode |-> "steady", misses |-> k] : k \in 0..MaxMisses}
    /\ h = NoFrame
    /\ ret = NoRet
    /\ relics_body = JNull
    /\ relics_min = <<>>
    /\ reward_items = <<>>
    /\ idx = 0
    /\ cands = <<>>
    /\ ci = 0
    /\ v = RNone
    /\ prices = <<>>
    /\ missing_items = <<>>
    /\ item_requests = 0
    /\ sleeps = [pause |-> 0, pacing |-> 0]
    /\ files = <<>>
    /\ raised = NoErr
    /\ slug_pc = "idle" /\ item_arg = <<>> /\ slug_out = <<>>
    /\ ext_pc = "idle" /\ ext_doc = JNull /\ ext_out = RNone

\* main calls build_relics_min, which calls http_json(RELICS_ALL_URL)
MainStart ==
    /\ pc = "main"
    /\ h' = Frame("build_relics_min", RELICS_ALL_URL)
    /\ ret' = NoRet
    /\ pc' = "http_json"
    /\ UNCHANGED <<env, relics_body, relics_min, batchVars, files, raised, slugVars, extVars>>

\* one attempt of the running http_json call; when the call ends, control goes
\* back to its caller
HttpAttempt ==
    /\ pc = "http_json"
    /\ \E r \in Answers(h.url, env) :
        LET s == http_json_step(h, r)
        IN  /\ h' = s.h
            /\ ret' = s.ret
            /\ pc' = IF s.ret.kind = "none" THEN "http_json" ELSE h.caller
            /\ env' = EnvAfter(env, r)
    /\ UNCHANGED <<relics_body, relics_min, batchVars, files, raised, slugVars, extVars>>

\* build_relics_min, lines 126-131: an exception of http_json ends main, so does
\* an unexpected format; else build_vaulted_map calls http_json
RelicsFetched ==
    /\ pc = "build_relics_min"
    /\ IF ret.kind = "raise"
       THEN /\ raised' = ret.err
            /\ pc' = "exit"
            /\ UNCHANGED <<h, ret, relics_body>>
       ELSE IF ~RelicsFormatOk(ret.val)
       THEN /\ raised' = RuntimeError("Unexpected format for relics.json")
            /\ pc' = "exit"
            /\ UNCHANGED <<h, ret, relics_body>>
       ELSE /\ relics_body' = ret.val
            /\ h' = Frame("build_vaulted_map", RELICS_VAULT_MAP_URL)
            /\ ret' = NoRet
            /\ pc' = "http_json"
            /\ UNCHANGED raised
    /\ UNCHANGED <<env, relics_min, batchVars, files, slugVars, extVars>>

\* build_vaulted_map lines 99-111, then build_relics_min lines 131-201: the
\* list is parsed, sorted and written, and only then refused when empty
RelicsParsed ==
    /\ pc = "build_vaulted_map"
    /\ LET vault_map == build_vaulted_map(ret)
           out == SortRelics(RelicsLoop(relics_body.f["relics"].items, {}, vault_map))
       IN  /\ files' = Put(files, RELICS_OUT, out)
           /\ IF Len(out) = 0
              THEN /\ raised' = RuntimeError("Relics list is empty after parsing")
                   /\ pc' = "exit"
                   /\ UNCHANGED relics_min
              ELSE /\ relics_min' = out
                   /\ pc' = "build_prices_from_wm_statistics"
                   /\ UNCHANGED raised
    /\ UNCHANGED <<env, h, ret, relics_body, batchVars, slugVars, extVars>>

\* build_prices_from_wm_statistics lines 326-330
BuildPricesStart ==
    /\ pc = "build_prices_from_wm_statistics"
    /\ reward_items' = unique_reward_items(relics_min)
    /\ prices' = <<>>
    /\ missing_items' = <<>>
    /\ item_requests' = 0
    /\ idx' = 1
    /\ pc' = "for_item"
    /\ UNCHANGED <<env, h, ret, relics_body, relics_min, cands, ci, v, sleeps, files, raised,
                   slugVars, extVars>>

\* lines 332-336: the next item, its candidates
ForItem ==
    /\ pc = "for_item"
    /\ idx <= Len(reward_items)
    /\ v' = RNone
    /\ cands' = wm_url_candidates(reward_items[idx])
    /\ ci' = 1
    /\ item_requests' = 0
    /\ pc' = "for_cand"
    /\ UNCHANGED <<env, h, ret, relics_body, relics_min, reward_items, idx, prices,
                   missing_items, sleeps, files, raised, slugVars, extVars>>

\* line 336-338: the next candidate, for which wm_price_from_statistics calls
\* http_json; the loop is over when there is none
ForCand ==
    /\ pc = "for_cand"
    /\ IF ci <= Len(cands)
       THEN /\ h' = Frame("wm_price_from_statistics", WM_ITEM_STATS(Quote(cands[ci])))
            /\ ret' = NoRet
            /\ pc' = "http_json"
       ELSE /\ pc' = "item_end"
            /\ UNCHANGED <<h, ret>>
    /\ UNCHANGED <<env, relics_body, relics_min, batchVars, files, raised, slugVars, extVars>>

\* PriceFetched with `continue` in place of the `break` of line 344
PriceFetched_TransientNext ==
    /\ pc = "wm_price_from_statistics"
    /\ LET r == wm_price_from_statistics(ret)
       IN  IF r.kind = "raise"
           THEN IF ret.err.kind = "HTTPError" /\ ret.err.code \in TransientStatus
                THEN /\ sleeps' = [sleeps EXCEPT !.pause = @ + 1]
                     /\ v' = RNone
                     /\ pc' = "for_cand"
                     /\ ci' = ci + 1
                     /\ UNCHANGED raised
                ELSE /\ raised' = ret.err
                     /\ pc' = "exit"
                     /\ UNCHANGED <<ci, v, sleeps>>
           ELSE /\ v' = r
                /\ IF r # RNone
                   THEN pc' = "item_end" /\ UNCHANGED ci
                   ELSE pc' = "for_cand" /\ ci' = ci + 1
                /\ UNCHANGED <<sleeps, raised>>
    /\ item_requests' = item_requests + h.requests
    /\ UNCHANGED <<env, h, ret, relics_body, relics_min, reward_items, idx, cands, prices,
                   missing_items, files, slugVars, extVars>>

\* PriceFetched without the `break` of line 348
PriceFetched_NoBreak ==
    /\ pc = "wm_price_from_statistics"
    /\ LET r == wm_price_from_statistics(ret)
       IN  IF r.kind = "raise"
           THEN IF ret.err.kind = "HTTPError" /\ ret.err.code \in TransientStatus
                THEN /\ sleeps' = [sleeps EXCEPT !.pause = @ + 1]
                     /\ v' = RNone
                     /\ pc' = "item_end"
                     /\ UNCHANGED <<ci, raised>>
                ELSE /\ raised' = ret.err
                     /\ pc' = "exit"
                     /\ UNCHANGED <<ci, v, sleeps>>
           ELSE /\ v' = r
                /\ pc' = "for_cand"
                /\ ci' = ci + 1
                /\ UNCHANGED <<sleeps, raised>>
    /\ item_requests' = item_requests + h.requests
    /\ UNCHANGED <<env, h, ret, relics_body, relics_min, reward_items, idx, cands, prices,
                   missing_items, files, slugVars, extVars>>

\* lines 291-322 and 337-348: how the candidate's fetch ended decides between
\* the next candidate, the end of the item's loop and the end of main
PriceFetched ==
    /\ pc = "wm_price_from_statistics"
    /\ LET r == wm_price_from_statistics(ret)
       IN  IF r.kind = "raise"
           THEN IF ret.err.kind = "HTTPError" /\ ret.err.code \in TransientStatus
                THEN /\ sleeps' = [sleeps EXCEPT !.pause = @ + 1]
                     /\ v' = RNone
                     /\ pc' = "item_end"
                     /\ UNCHANGED <<ci, raised>>
                ELSE /\ raised' = ret.err
                     /\ pc' = "exit"
                     /\ UNCHANGED <<ci, v, sleeps>>
           ELSE /\ v' = r
                /\ IF r # RNone
                   THEN pc' = "item_end" /\ UNCHANGED ci
                   ELSE pc' = "for_cand" /\ ci' = ci + 1
                /\ UNCHANGED <<sleeps, raised>>
    /\ item_requests' = item_requests + h.requests
    /\ UNCHANGED <<env, h, ret, relics_body, relics_min, reward_items, idx, cands, prices,
                   missing_items, files, slugVars, extVars>>

\* ItemEnd with the missing list appended to whatever v is
ItemEnd_AlwaysMissing ==
    /\ pc = "item_end"
    /\ missing_items' = Append(missing_items, reward_items[idx])
    /\ IF v = RNone
       THEN UNCHANGED prices
       ELSE prices' = Put(prices, reward_items[idx], v.v)
    /\ sleeps' = [sleeps EXCEPT !.pacing = @ + 1]
    /\ idx' = idx + 1
    /\ pc' = "for_item"
    /\ UNCHANGED <<env, h, ret, relics_body, relics_min, reward_items, cands, ci, v,
                   item_requests, files, raised, slugVars, extVars>>

\* ItemEnd with the pacing sleep made for a priced item only
ItemEnd_PaceIfPriced ==
    /\ pc = "item_end"
    /\ IF v = RNone
       THEN /\ missing_items' = Append(missing_items, reward_items[idx])
            /\ UNCHANGED prices
       ELSE /\ prices' = Put(prices, reward_items[idx], v.v)
            /\ UNCHANGED missing_items
    /\ sleeps' = [sleeps EXCEPT !.pacing = IF v = RNone THEN @ ELSE @ + 1]
    /\ idx' = idx + 1
    /\ pc' = "for_item"
    /\ UNCHANGED <<env, h, ret, relics_body, relics_min, reward_items, cands, ci, v,
                   item_requests, files, raised, slugVars, extVars>>

\* lines 350-358: the item is recorded, then the pacing sleep
ItemEnd ==
    /\ pc = "item_end"
    /\ IF v = RNone
       THEN /\ missing_items' = Append(missing_items, reward_items[idx])
            /\ UNCHANGED prices
       ELSE /\ prices' = Put(prices, reward_items[idx], v.v)
            /\ UNCHANGED missing_items
    /\ sleeps' = [sleeps EXCEPT !.pacing = @ + 1]
    /\ idx' = idx + 1
    /\ pc' = "for_item"
    /\ UNCHANGED <<env, h, ret, relics_body, relics_min, reward_items, cands, ci, v,
                   item_requests, files, raised, slugVars, extVars>>

\* MainFinish with the threshold test written <=
MainFinish_AtMost ==
    /\ pc = "for_item"
    /\ idx > Len(reward_items)
    /\ files' = write_missing_debug(Put(files, PRICES_OUT, prices), missing_items)
    /\ raised' = IF Cardinality(DOMAIN prices) <= MIN_PRICES
                 THEN RuntimeError("Too few prices") ELSE NoErr
    /\ pc' = "exit"
    /\ UNCHANGED <<env, h, ret, relics_body, relics_min, batchVars, slugVars, extVars>>

\* lines 360-361 and 387-400: the batch returns, main writes the prices and the
\* missing items and then applies the threshold
MainFinish ==
    /\ pc = "for_item"
    /\ idx > Len(reward_items)
    /\ files' = write_missing_debug(Put(files, PRICES_OUT, prices), missing_items)
    /\ raised' = IF Cardinality(DOMAIN prices) < MIN_PRICES
                 THEN RuntimeError("Too few prices") ELSE NoErr
    /\ pc' = "exit"
    /\ UNCHANGED <<env, h, ret, relics_body, relics_min, batchVars, slugVars, extVars>>

Next ==
    \/ MainStart
    \/ HttpAttempt
    \/ RelicsFetched
    \/ RelicsParsed
    \/ BuildPricesStart
    \/ ForItem
    \/ ForCand
    \/ PriceFetched
    \/ ItemEnd
    \/ MainFinish

Spec == Init /\ [][Next]_vars

-----------------------------------------------------------------------------
(* Claims about the batch, main and http_json (checked under Spec) *)

\* build_prices_from_wm_statistics has returned
BatchReturned == idx >= 1 /\ idx > Len(reward_items)

\* the item names of the catalog handed to the batch
ItemNames ==
    UNION {{relics_min[j].rewards[k].item : k \in 1..Len(relics_min[j].rewards)} :
              j \in 1..Len(relics_min)}

\* C1: when build_prices_from_wm_statistics has returned, every item name is in
\* exactly one of the price map and the missing list, whatever the answers were.
C1_ExactlyOneOfPricesOrMissing ==
    BatchReturned =>
        /\ \A n \in ItemNames : (n \in DOMAIN prices) # (n \in Range(missing_items))
        /\ DOMAIN prices \cup Range(missing_items) \subseteq ItemNames

\* two items, one priced with 50 from its second candidate, one missing
C1_Witness ==
    /\ BatchReturned
    /\ env.mode = "any"
    /\ Len(missing_items) = 1
    /\ DOMAIN prices = {<<"S", "o", "m", "a", " ">> \o NameWord_Receiver}
    /\ prices[<<"S", "o", "m", "a", " ">> \o NameWord_Receiver] = 50
    /\ h.url.url_name = <<"s", "o", "m", "a", "_">> \o Reciever

\* C2 as stated: once the batch runs, no failure of an item's fetch halts it;
\* main ends only normally or on the minimum-priced-items threshold.
C2_OnlyThresholdHalts ==
    (pc = "exit" /\ idx >= 1) => raised \in {NoErr, RuntimeError("Too few prices")}

\* C2, what the code does: a fetch that ends with HTTP 404 or 403 makes the
\* batch try the next candidate; one that ends with a transient status (429,
\* 500, 502, 503, 504) after all retries makes it give up the item, which is
\* recorded as missing, and the batch goes on; a fetch that ends with any other
\* exception (another HTTP status, a timeout, connection failure or unparsable
\* body that lasted through all retries) ends the batch and main with it.
C2_WhichFailuresHalt ==
    [][(pc = "wm_price_from_statistics" /\ ret.kind = "raise") =>
        IF ret.err.kind = "HTTPError" /\ ret.err.code \in NoDataStatus
        THEN pc' = "for_cand" /\ ci' = ci + 1 /\ v' = RNone /\ raised' = NoErr
        ELSE IF ret.err.kind = "HTTPError" /\ ret.err.code \in TransientStatus
        THEN pc' = "item_end" /\ v' = RNone /\ raised' = NoErr
        ELSE pc' = "exit" /\ raised' = ret.err /\ UNCHANGED <<prices, missing_items, idx>>]_vars

\* a timeout that lasted through the four attempts of an item's fetch ended main
C2_TimeoutEndsMain ==
    /\ pc = "exit"
    /\ idx >= 1
    /\ h.caller = "wm_price_from_statistics"
    /\ h.requests = ATTEMPTS
    /\ raised = OtherError("URLError")

\* C3: when the batch has returned with fewer than 25 priced items main ends
\* with the "Too few prices" error; with 25 or more it ends normally.
C3_ThresholdDecidesExit ==
    (pc = "exit" /\ BatchReturned) =>
        /\ Cardinality(DOMAIN prices) < 25 => raised = RuntimeError("Too few prices")
        /\ Cardinality(DOMAIN prices) >= 25 => raised = NoErr

\* 24 items priced: main ended with the error
C3_Witness ==
    /\ pc = "exit"
    /\ BatchReturned
    /\ Cardinality(DOMAIN prices) = 24
    /\ raised = RuntimeError("Too few prices")

\* 25 items priced: main ended normally
C3_WitnessEnough ==
    /\ pc = "exit"
    /\ BatchReturned
    /\ Cardinality(DOMAIN prices) = 25
    /\ raised = NoErr

\* C4: in a run in which fewer than 25 items were priced, the price map and the
\* missing items are never written to their files.
C4_NothingWrittenWhenTooFew ==
    (BatchReturned /\ Cardinality(DOMAIN prices) < 25) =>
        {PRICES_OUT, MISSING_TXT, MISSING_JSON} \cap DOMAIN files = {}

\* the step is an attempt of http_json that met an exception
AttemptFailed == pc = "http_json" /\ h'.requests = h.requests + 1 /\ ret'.kind # "return"

\* C5: an http_json call makes at most 4 requests; an attempt answered 429 is
\* followed by a backoff and the next attempt, the fourth by the raise, so
\* that a call answered 429 throughout makes exactly 4 requests and raises; an
\* attempt answered 404 or 403 raises at once, with no backoff and no further
\* request.
C5_RetryCeilingAndTerminalStatus ==
    /\ [](h.requests <= 4 /\ (pc = "http_json" => h.requests < 4))
    /\ [][AttemptFailed =>
            /\ h'.last_err = HTTPError(429) =>
                 /\ h'.backoffs = Append(h.backoffs, h.requests)
                 /\ IF h'.requests < 4
                    THEN pc' = "http_json" /\ ret' = NoRet
                    ELSE pc' = h.caller /\ ret' = Raise(HTTPError(429))
            /\ (h'.last_err.kind = "HTTPError" /\ h'.last_err.code \in {404, 403}) =>
                 /\ h'.backoffs = h.backoffs
                 /\ pc' = h.caller
                 /\ ret' = Raise(h'.last_err)]_vars

\* four requests, four backoffs, then the 429 raised
C5_Witness ==
    /\ h.requests = 4
    /\ h.backoffs = <<0, 1, 2, 3>>
    /\ ret = Raise(HTTPError(429))
    /\ pc = h.caller

\* C6 as stated: an exception of http_json other than a 404 or 403 is raised
\* only after the ceiling of 4 attempts.
C6_OthersRetriedToCeiling ==
    (ret.kind = "raise" /\ ~(ret.err.kind = "HTTPError" /\ ret.err.code \in {404, 403}))
        => h.requests = 4

\* C6 amended: a transport-level error (timeout, connection reset) or a body
\* that does not parse is retried, with a backoff, up to the ceiling of 4
\* attempts and only then propagated; an HTTP status outside 429, 500, 502, 503,
\* 504, such as 400 or 401, is propagated at once, without retry or backoff.
C6_TransportRetriedStatusNot ==
    [][AttemptFailed =>
        /\ h'.last_err.kind # "HTTPError" =>
             /\ h'.backoffs = Append(h.backoffs, h.requests)
             /\ IF h'.requests < 4
                THEN pc' = "http_json" /\ ret' = NoRet
                ELSE pc' = h.caller /\ ret' = Raise(h'.last_err)
        /\ (h'.last_err.kind = "HTTPError" /\ h'.last_err.code \notin TransientStatus) =>
             /\ h'.backoffs = h.backoffs
             /\ pc' = h.caller
             /\ ret' = Raise(h'.last_err)]_vars

\* a connection reset raised after four requests, and a 400 raised by the first
C6_Witness ==
    /\ h.requests = 4
    /\ h.backoffs = <<0, 1, 2, 3>>
    /\ ret = Raise(OtherError("ConnectionResetError"))

C6_WitnessStatus ==
    /\ h.requests = 1
    /\ h.backoffs = <<>>
    /\ ret = Raise(HTTPError(400))

\* C11: every value stored in the price map is a non-negative integer.
C11_PricesNonNegative ==
    /\ v.kind = "int" => v.v \in Nat
    /\ \A n \in DOMAIN prices : prices[n] \in Nat

\* C17: when build_relics_min aborts because the parsed relic list is empty,
\* the relics output file has not been written.
C17_EmptyListNotWritten ==
    raised = RuntimeError("Relics list is empty after parsing") => RELICS_OUT \notin DOMAIN files

\* C19: a fetched document whose closed/90days window ends with a median that
\* rounds to 0 gives the candidate the price 0 and ends the candidate loop, and
\* an item whose loop ended with price 0 is stored in the price map with 0 and
\* not put in the missing list.
C19_ZeroIsAPrice ==
    /\ [][(/\ pc = "wm_price_from_statistics"
           /\ ret.kind = "return"
           /\ StageAvailable(ret.val, 1)
           /\ StageLastMedian(ret.val, 1) \in -5..5)
          => (v' = RInt(0) /\ pc' = "item_end")]_vars
    /\ [][(pc = "item_end" /\ v = RInt(0))
          => /\ reward_items[idx] \in DOMAIN prices'
             /\ prices'[reward_items[idx]] = 0
             /\ missing_items' = missing_items]_vars

\* the only item got the document whose closed/90days median is 0 and whose
\* open/90days median is 7, and is priced 0
C19_Witness ==
    /\ pc = "for_item"
    /\ ret = Return(ZeroDoc)
    /\ Len(reward_items) = 1
    /\ DOMAIN prices = {reward_items[1]}
    /\ prices[reward_items[1]] = 0
    /\ missing_items = <<>>

\* the http_json call of a candidate's wm_price_from_statistics has ended
CandidateFetched == pc = "wm_price_from_statistics"

\* ... with the HTTPError of a status in S
EndedWithStatus(S) ==
    CandidateFetched /\ ret.kind = "raise" /\ ret.err.kind = "HTTPError" /\ ret.err.code \in S

\* ... with a body from which the extraction gets a price
EndedWithPrice ==
    CandidateFetched /\ ret.kind = "return" /\ price_from_payload(ret.val).kind = "int"

\* the price map after this step is the one before with item n priced x
PricedNow(n, x) ==
    /\ DOMAIN prices' = DOMAIN prices \cup {n}
    /\ prices'[n] = x
    /\ \A q \in DOMAIN prices \ {n} : prices'[q] = prices[q]

\* C12: a 404 or 403 answer to a candidate's request is not raised out of the
\* pricing call: nothing is recorded, main goes on and the next candidate is
\* the one requested next; a later candidate's price is the item's price; an
\* item whose candidates are exhausted goes to the missing list and leaves the
\* price map as it was.
C12_NoDataStatusFallsBack ==
    /\ [][EndedWithStatus({404, 403}) =>
            /\ raised' = NoErr
            /\ pc' = "for_cand" /\ ci' = ci + 1 /\ v' = RNone
            /\ prices' = prices /\ missing_items' = missing_items]_vars
    /\ [][(pc = "for_cand" /\ ci <= Len(cands)) =>
            /\ pc' = "http_json"
            /\ h'.url.url_name = Quote(cands[ci])
            /\ h'.requests = 0]_vars
    /\ [][(EndedWithPrice /\ ci > 1) =>
            /\ v' = price_from_payload(ret.val)
            /\ pc' = "item_end"]_vars
    /\ [](pc = "item_end" /\ ci > Len(cands) => v = RNone)
    /\ [][pc = "item_end" =>
            IF v = RNone
            THEN missing_items' = Append(missing_items, reward_items[idx]) /\ prices' = prices
            ELSE PricedNow(reward_items[idx], v.v) /\ missing_items' = missing_items]_vars

\* the first candidate of "Soma Receiver" answered 404: the second is next
C12_Witness ==
    /\ pc = "for_cand"
    /\ ci = 2
    /\ h.url.url_name = <<"s", "o", "m", "a", "_">> \o Receiver
    /\ cands[ci] = <<"s", "o", "m", "a", "_">> \o Reciever
    /\ ret = Raise(HTTPError(404))
    /\ h.requests = 1

\* the last candidate of the only item answered 404 like the one before (one
\* request each): the item is missing and nothing is priced
C12_WitnessAllMissing ==
    /\ BatchReturned
    /\ Len(reward_items) = 1
    /\ Len(cands) = 2
    /\ item_requests = 2
    /\ ret = Raise(HTTPError(404))
    /\ missing_items = reward_items
    /\ prices = <<>>

\* C13: when a candidate's fetch ends with a transient status, which it does
\* after 4 requests, the batch pauses once, requests no further candidate of
\* the item, records the item as missing and goes on with the next item; main
\* does not end there.
C13_TransientAbandonsItem ==
    /\ [][EndedWithStatus(TransientStatus) =>
            /\ h.requests = 4
            /\ sleeps'.pause = sleeps.pause + 1
            /\ pc' = "item_end" /\ v' = RNone /\ ci' = ci
            /\ raised' = NoErr]_vars
    /\ [][sleeps'.pause # sleeps.pause => EndedWithStatus(TransientStatus)]_vars
    /\ [][pc = "item_end" =>
            /\ h' = h
            /\ pc' = "for_item" /\ idx' = idx + 1
            /\ v = RNone => missing_items' = Append(missing_items, reward_items[idx])]_vars

\* the item with three candidates was given up after the four requests of its
\* first candidate ended with 503
C13_Witness ==
    /\ pc = "for_item"
    /\ idx = 2
    /\ Len(cands) = 3 /\ ci = 1
    /\ item_requests = 4
    /\ ret = Raise(HTTPError(503))
    /\ sleeps.pause = 1
    /\ missing_items = <<reward_items[1]>>
    /\ raised = NoErr

\* C14: the candidates of an item are requested in list order, one call each,
\* and only while the item has no price; the first price a candidate yields
\* ends the candidate loop and is the price recorded for the item.
C14_FirstPriceWins ==
    /\ []((pc = "http_json" /\ h.caller = "wm_price_from_statistics") =>
            /\ v = RNone
            /\ ci \in 1..Len(cands)
            /\ h.url.url_name = Quote(cands[ci]))
    /\ [][ci' # ci => (pc = "for_item" /\ ci' = 1) \/ (CandidateFetched /\ ci' = ci + 1)]_vars
    /\ [][EndedWithPrice =>
            /\ v' = price_from_payload(ret.val)
            /\ pc' = "item_end" /\ ci' = ci]_vars
    /\ [][(pc = "item_end" /\ v # RNone) =>
            /\ PricedNow(reward_items[idx], v.v)
            /\ pc' = "for_item" /\ h' = h]_vars

\* the item with three candidates got 50 from the second: two requests in all
C14_Witness ==
    /\ pc = "for_item"
    /\ idx = 2
    /\ Len(cands) = 3 /\ ci = 2
    /\ item_requests = 2
    /\ h.url.url_name = Quote(cands[2])
    /\ ret = Return(Closed48Doc)
    /\ prices[reward_items[1]] = 50

\* the items the loop has dealt with
Processed == {reward_items[k] : k \in 1..(idx - 1)}

\* C15: in the batch an entry of the price map is never overwritten or
\* removed, the missing list only gets longer at its end, and between items
\* the keys of the price map and the missing list are disjoint and together
\* are the items processed so far.
C15_AccumulatorsOnlyGrow ==
    /\ [][idx >= 1 =>
            /\ \A n \in DOMAIN prices : n \in DOMAIN prices' /\ prices'[n] = prices[n]
            /\ Len(missing_items') >= Len(missing_items)
            /\ SubSeq(missing_items', 1, Len(missing_items)) = missing_items]_vars
    /\ [](pc \in {"for_item", "for_cand", "item_end"} =>
            /\ DOMAIN prices \cap Range(missing_items) = {}
            /\ DOMAIN prices \cup Range(missing_items) = Processed
            /\ Cardinality(Range(missing_items)) = Len(missing_items))

\* between the second and the third item: one priced, one missing
C15_Witness ==
    /\ pc = "for_item"
    /\ idx = 3
    /\ Len(reward_items) >= 3
    /\ DOMAIN prices = {reward_items[1]}
    /\ missing_items = <<reward_items[2]>>

\* C16: the pacing sleep is made once per item, in the step that ends the item
\* after its candidate loop, whatever the outcome, and nowhere else: in the
\* batch the pacing sleeps made are as many as the items dealt with.
C16_PacingOncePerItem ==
    /\ [](idx >= 1 => sleeps.pacing = idx - 1)
    /\ [][pc = "item_end" => sleeps'.pacing = sleeps.pacing + 1 /\ pc' = "for_item"]_vars
    /\ [][sleeps'.pacing # sleeps.pacing => pc = "item_end"]_vars
    /\ [][(pc = "http_json" /\ h'.requests = h.requests + 1) => sleeps' = sleeps]_vars

\* two items done: one without candidate, one given up on a transient status
\* after the four requests of its first candidate; two pacing sleeps
C16_Witness ==
    /\ BatchReturned
    /\ Len(reward_items) = 2
    /\ reward_items[1] = <<"#">>
    /\ Len(cands) >= 2 /\ ci = 1
    /\ item_requests = 4
    /\ sleeps.pause = 1
    /\ sleeps.pacing = 2
    /\ Len(missing_items) = 2

\* the requests made for the current item so far
ItemRequests ==
    item_requests + (IF pc = "http_json" /\ h.caller = "wm_price_from_statistics"
                     THEN h.requests ELSE 0)

\* where main is, counted down: the calls before the batch, the batch, the end
PhaseLeft ==
    CASE pc = "main" -> 7
      [] pc = "http_json" /\ h.caller = "build_relics_min" -> 6
      [] pc = "build_relics_min" -> 5
      [] pc = "http_json" /\ h.caller = "build_vaulted_map" -> 4
      [] pc = "build_vaulted_map" -> 3
      [] pc = "build_prices_from_wm_statistics" -> 2
      [] pc = "exit" -> 0
      [] OTHER -> 1

\* what is left to do, most significant first: phases, items of the batch,
\* candidates of the item, steps of the candidate's fetch
WorkLeft ==
    << PhaseLeft,
       IF PhaseLeft = 1 THEN Len(reward_items) + 1 - idx ELSE 0,
       CASE PhaseLeft # 1 -> 0
         [] pc = "for_item" -> 5
         [] pc = "item_end" -> 0
         [] OTHER -> Len(cands) + 2 - ci,
       CASE pc = "for_cand" -> 6
         [] pc = "http_json" -> 5 - h.requests
         [] OTHER -> 0 >>

\* a < b in the lexicographic order of 4-tuples
LexLess(a, b) ==
    \E k \in 1..4 : a[k] < b[k] /\ \A j \in 1..(k - 1) : a[j] = b[j]

\* main has a next step
CanStep ==
    \/ pc \in {"main", "build_relics_min", "build_vaulted_map",
               "build_prices_from_wm_statistics", "for_item", "for_cand",
               "wm_price_from_statistics", "item_end"}
    \/ pc = "http_json" /\ Answers(h.url, env) # {}

\* C18: an item has at most 3 candidates, a call makes at most 4 requests, so
\* that at most 12 requests are made for an item (and 12 x N for N items, the
\* items being dealt with once each, in order); and main ends under any
\* answers: until it has ended it has a next step, and every step lessens the
\* work left, which is bounded.
C18_BoundedAndTerminates ==
    /\ [](/\ Len(cands) <= 3
          /\ h.requests <= 4
          /\ ItemRequests <= 4 * Len(cands)
          /\ ItemRequests <= 12
          /\ idx <= Len(reward_items) + 1)
    /\ [][idx' # idx => (idx' = idx + 1 /\ pc = "item_end") \/ (idx = 0 /\ idx' = 1)]_vars
    /\ [](/\ WorkLeft[1] \in 0..7
          /\ WorkLeft[2] \in 0..Len(reward_items)
          /\ WorkLeft[3] \in 0..5
          /\ WorkLeft[4] \in 0..6)
    /\ [](pc # "exit" => CanStep)
    /\ [][LexLess(WorkLeft', WorkLeft)]_vars

\* twelve requests for the item with three candidates
C18_Witness ==
    /\ pc = "item_end"
    /\ Len(cands) = 3
    /\ item_requests = 12

====
